---- MODULE Spec2Model ----
(***************************************************************************)
(* Model of the Gather.Town API client (src/gather_api_client.js):         *)
(* construction of a GatherAPIClient from an API key argument and the      *)
(* process environment, the retry loop of makeRequest, and the nine        *)
(* convenience wrappers (with addGuest's error translation).               *)
(*                                                                         *)
(* One client operation is in progress at a time.  The remote service and  *)
(* the network are the environment: for every attempt they choose either a *)
(* network failure (fetch rejects) or an HTTP response with a status and a *)
(* body.                                                                   *)
(*                                                                         *)
(* The RateLimitManager of the same file is modelled next to the client:   *)
(* its ledger this.usage, the wall clock, and checkLimit.                  *)
(***************************************************************************)
EXTENDS Integers, Sequences, FiniteSets, TLC

VARIABLES env, ctor, client, call, clock, usage, checks, inflight,
          clients, calls, bulk, invites, poc

\* The client: process environment, constructor outcome, instance, and the
\* operation in progress.
clientVars == <<env, ctor, client, call>>

\* The rate limit manager: Date.now(), the keys of this.usage, the checkLimit
\* calls made so far, and the number of checkLimit promises whose callers
\* have not resumed yet.
ledgerVars == <<clock, usage, checks, inflight>>

\* Several instances and several makeRequest calls in progress at once:
\* clients[n] is instance n, calls[i] is call i and the instance it runs on.
multiVars == <<clients, calls>>

\* FCGuestManager.bulkInviteGuests: the invocation (position, batches, batch
\* index, results, delay timer) and the addGuest call made for each guest.
bulkVars == <<bulk, invites>>

\* POCExecutor: the executor object and its executePOC invocation.
pocVars == <<poc>>

vars == <<env, ctor, client, call, clock, usage, checks, inflight,
          clients, calls, bulk, invites, poc>>

(***************************************************************************)
(* JavaScript values                                                       *)
(***************************************************************************)
\* The value of a variable that was never set, an argument that was not
\* passed, or a missing property.
Undefined == "undefined"

\* The status of an error object that has no `status` property.
NoStatus == -1

\* JavaScript truthiness of a string-or-undefined value.
Falsy(v) == v = Undefined \/ v = ""

\* a || b
Or(a, b) == IF Falsy(a) THEN b ELSE a

(***************************************************************************)
(* Program constants                                                       *)
(***************************************************************************)
MaxRetries == 3

BackoffMs == 1000

DefaultBaseUrl == "https://gather.town/api/v2"

UserAgent == "FC-GuestList-POC/1.0"

RECURSIVE Pow2(_)
\* Math.pow(2, n) for a non-negative integer n
Pow2(n) == IF n = 0 THEN 1 ELSE 2 * Pow2(n - 1)

(***************************************************************************)
(* Inputs                                                                  *)
(***************************************************************************)
\* The apiKey argument of the constructor.
ApiKeyArgs == {Undefined, "", "key_arg"}

\* process.env.GATHER_API_KEY and process.env.GATHER_BASE_URL
EnvApiKeys == {Undefined, "", "key_env"}

EnvBaseUrls == {Undefined, "https://env.example/api"}

\* HTTP statuses the service may answer with.
Statuses == {200, 201, 304, 400, 403, 404, 409, 429, 500, 503}

\* Response bodies.  "invalid" is a body that is not JSON (response.json()
\* rejects); "null" is the JSON text null; the others are JSON objects,
\* "none" without a message property and "m1", "m2" with that message.
Bodies == {"invalid", "null", "none", "m1", "m2"}

\* The outcome of one fetch: a network failure, or a response.
FetchOutcomes ==
  {[net |-> TRUE, status |-> NoStatus, body |-> "invalid"]}
    \cup [net : {FALSE}, status : Statuses, body : Bodies]

\* A guest configuration passed to addGuest: a single guest object or an
\* array of guest objects (v lists the guest objects).
GuestConfigs ==
  {[arr |-> FALSE, v |-> <<"g1">>], [arr |-> TRUE, v |-> <<"g1", "g2">>]}

\* The opaque payload of the other wrappers, and the absence of a payload.
Payload == [arr |-> FALSE, v |-> <<"p1">>]

NoData == [arr |-> FALSE, v |-> <<>>]

(***************************************************************************)
(* Errors                                                                  *)
(***************************************************************************)
Message(src, text, code) == [src |-> src, text |-> text, code |-> code]

NoError == [name |-> "none", status |-> NoStatus,
            message |-> Message("none", "", 0), data |-> NoData]

APIError(status, message) ==
  [name |-> "APIError", status |-> status, message |-> message, data |-> NoData]

ValidationError(message, data) ==
  [APIError(400, message) EXCEPT !.name = "ValidationError", !.data = data]

PermissionError(message) ==
  [APIError(403, message) EXCEPT !.name = "PermissionError"]

ConflictError(message) ==
  [APIError(409, message) EXCEPT !.name = "ConflictError"]

\* Errors raised by the runtime rather than by the client: they have no
\* status property.
\* fetch rejects (DNS failure, connection refused, ...)
FetchError ==
  [name |-> "FetchError", status |-> NoStatus,
   message |-> Message("fetch", "request failed", 0), data |-> NoData]

\* response.json() rejects
JsonError ==
  [name |-> "SyntaxError", status |-> NoStatus,
   message |-> Message("json", "invalid json", 0), data |-> NoData]

\* responseData.message when responseData is null
NullError ==
  [name |-> "TypeError", status |-> NoStatus,
   message |-> Message("null", "cannot read properties of null", 0),
   data |-> NoData]

(***************************************************************************)
(* GatherAPIClient.constructor                                             *)
(***************************************************************************)
\* this.apiKey = apiKey || process.env.GATHER_API_KEY
CtorApiKey(apiKey, e) == Or(apiKey, e.GATHER_API_KEY)

\* this.baseUrl = process.env.GATHER_BASE_URL || '<default>'
CtorBaseUrl(e) == Or(e.GATHER_BASE_URL, DefaultBaseUrl)

\* this.retryConfig = { maxRetries: 3, backoffMs: 1000, retryCondition }
RetryConfig == [maxRetries |-> MaxRetries, backoffMs |-> BackoffMs]

NoClient ==
  [constructed |-> FALSE, apiKey |-> Undefined, baseUrl |-> Undefined,
   retryConfig |-> RetryConfig]

\* new GatherAPIClient(apiKey) when the constructor does not throw
NewClient(apiKey, e) ==
  [constructed |-> TRUE, apiKey |-> CtorApiKey(apiKey, e),
   baseUrl |-> CtorBaseUrl(e), retryConfig |-> RetryConfig]

NoCtor == [called |-> FALSE, arg |-> Undefined, threw |-> FALSE]

\* if (!this.apiKey) throw new Error('Gather.Town API key is required')
CtorThrows(apiKey, e) == Falsy(CtorApiKey(apiKey, e))

\* A retry condition that leaves out the rate-limited status.
retryCondition_ServerOnly(error) ==
  error.status # NoStatus /\ error.status >= 500

\* error.status >= 500 || error.status === 429; a comparison with an
\* undefined status is false
retryCondition(error) ==
  error.status # NoStatus /\ (error.status >= 500 \/ error.status = 429)

(***************************************************************************)
(* Requests                                                                *)
(***************************************************************************)
\* JSON.stringify(value): the JSON text of value
Stringify(value) == [json |-> value]

\* A headers object: the value of each header, Undefined when it is not set.
NoAuthorization == [scheme |-> Undefined, token |-> Undefined]

NoHeaders ==
  [Authorization |-> NoAuthorization, ContentType |-> Undefined,
   UserAgent |-> Undefined, Accept |-> Undefined]

\* An options object: keys is the set of its own properties, and each of
\* method, body and headers holds the value of that property when it is one.
Options(keys, method, body, headers) ==
  [keys |-> keys, method |-> method, body |-> body, headers |-> headers]

NoBody == Stringify(NoData)

\* {}
EmptyOptions == Options({}, Undefined, NoBody, NoHeaders)

\* { method }
MethodOptions(method) == Options({"method"}, method, NoBody, NoHeaders)

\* { method, body }
BodyOptions(method, body) == Options({"method", "body"}, method, body, NoHeaders)

\* The options a caller may pass to makeRequest directly.
RawOptions ==
  {EmptyOptions,
   MethodOptions("DELETE"),
   Options({"method", "headers"}, "POST", NoBody,
           [NoHeaders EXCEPT !.Accept = "text/plain"])}

Wrappers == {"createSpace", "getSpace", "updateSpace", "addGuest",
             "getGuestList", "updateGuest", "removeGuest", "sendInvitation",
             "createWebhook"}

Ops == Wrappers \cup {"makeRequest"}

\* The endpoint each wrapper passes to makeRequest.
Endpoint(op) ==
  CASE op = "createSpace" -> "/spaces"
    [] op = "getSpace" -> "/spaces/{spaceId}"
    [] op = "updateSpace" -> "/spaces/{spaceId}"
    [] op = "addGuest" -> "/spaces/{spaceId}/guests"
    [] op = "getGuestList" -> "/spaces/{spaceId}/guests"
    [] op = "updateGuest" -> "/spaces/{spaceId}/guests/{guestId}"
    [] op = "removeGuest" -> "/spaces/{spaceId}/guests/{guestId}"
    [] op = "sendInvitation" -> "/invitations"
    [] op = "createWebhook" -> "/webhooks"
    [] OTHER -> "/raw"

\* The body addGuest sends.
AddGuestBody(guestConfig) ==
  Stringify([guests |-> IF guestConfig.arr THEN guestConfig.v
                        ELSE <<guestConfig.v[1]>>,
             sendInvitation |-> TRUE])

\* The options each wrapper passes to makeRequest.
WrapperOptions(op, arg) ==
  CASE op = "createSpace" -> BodyOptions("POST", Stringify(arg))
    [] op = "updateSpace" -> BodyOptions("PUT", Stringify(arg))
    [] op = "addGuest" -> BodyOptions("POST", AddGuestBody(arg))
    [] op = "updateGuest" -> BodyOptions("PUT", Stringify(arg))
    [] op = "removeGuest" -> MethodOptions("DELETE")
    [] op = "sendInvitation" -> BodyOptions("POST", Stringify(arg))
    [] op = "createWebhook" -> BodyOptions("POST", Stringify(arg))
    [] OTHER -> EmptyOptions

\* The arguments each operation is called with.
OpArgs(op) ==
  CASE op = "addGuest" -> GuestConfigs
    [] op \in {"getSpace", "getGuestList", "removeGuest", "makeRequest"} -> {NoData}
    [] OTHER -> {Payload}

\* The options makeRequest is called with.
OpOptions(op, arg) ==
  IF op = "makeRequest" THEN RawOptions ELSE {WrapperOptions(op, arg)}

defaultOptions(c) ==
  Options({"headers"}, Undefined, NoBody,
          [NoHeaders EXCEPT
             !.Authorization = [scheme |-> "Bearer", token |-> c.apiKey],
             !.ContentType = "application/json",
             !.UserAgent = UserAgent])

\* { ...defaultOptions, ...options }: a shallow merge, a property of options
\* replaces the same property of defaultOptions as a whole
requestOptions(c, options) ==
  LET d == defaultOptions(c)
  IN Options(d.keys \cup options.keys,
             IF "method" \in options.keys THEN options.method ELSE d.method,
             IF "body" \in options.keys THEN options.body ELSE d.body,
             IF "headers" \in options.keys THEN options.headers ELSE d.headers)

(***************************************************************************)
(* GatherAPIClient.makeRequest                                             *)
(***************************************************************************)
NoResponse == [net |-> FALSE, status |-> NoStatus, body |-> "invalid"]

\* The value a call resolves with; undefined when it has not resolved with
\* a decoded body.
NoResult == [value |-> Undefined]

IdleCall ==
  [pc |-> "idle", op |-> "none", arg |-> NoData,
   url |-> [base |-> Undefined, path |-> Undefined],
   options |-> EmptyOptions, request |-> EmptyOptions,
   attempt |-> 0, hist |-> <<>>, response |-> NoResponse, waits |-> <<>>,
   result |-> NoResult, thrown |-> NoError, error |-> NoError]

\* response.ok taken to be status === 200
ResponseOk_Only200(status) == status = 200

\* response.ok
ResponseOk(status) == status >= 200 /\ status <= 299

\* What one attempt leaves in the history of the call: whether a response
\* arrived, its status, and what decoding its body gave.
Summary(out) ==
  [net |-> out.net, status |-> out.status,
   json |-> IF out.net \/ out.body = "invalid" THEN "invalid"
            ELSE IF out.body = "null" THEN "null" ELSE "object"]

\* await response.json(): the decoded body
Decode(body) == [value |-> body]

\* responseData.message || response.statusText
ResponseMessage(out) ==
  IF out.body \in {"m1", "m2"} THEN Message("body", out.body, 0)
  ELSE Message("statusText", "", out.status)

\* An attempt that examines the status before it decodes the body.
AttemptError_StatusFirst(out) ==
  IF out.net THEN FetchError
  ELSE IF ~ResponseOk(out.status)
    THEN APIError(out.status, Message("statusText", "", out.status))
  ELSE IF out.body = "invalid" THEN JsonError
  ELSE NoError

\* The error raised inside the try block of one attempt, NoError when the
\* attempt reaches the return statement.
AttemptError(out) ==
  IF out.net THEN FetchError
  ELSE IF out.body = "invalid" THEN JsonError
  ELSE IF ResponseOk(out.status) THEN NoError
  ELSE IF out.body = "null" THEN NullError
  ELSE APIError(out.status, ResponseMessage(out))

\* A catch block that forgets the attempt limit.
CatchThrows_NoLimit(c, attempt, error) == ~retryCondition(error)

\* attempt === maxRetries || !retryCondition(error): the catch block rethrows
CatchThrows(c, attempt, error) ==
  attempt = c.retryConfig.maxRetries \/ ~retryCondition(error)

\* backoffMs * Math.pow(2, attempt)
\* A backoff that grows by backoffMs per attempt instead of doubling.
backoffTime_Linear(c, attempt) == c.retryConfig.backoffMs * (attempt + 1)

backoffTime(c, attempt) == c.retryConfig.backoffMs * Pow2(attempt)

\* attempt <= maxRetries: the loop condition
LoopContinues(c, attempt) == attempt <= c.retryConfig.maxRetries

\* A catch block that wraps every failure into a ValidationError.
AddGuestCatch_AllInvalid(error, guestConfig) ==
  ValidationError(Message("client", "Invalid guest configuration", 0),
                  guestConfig)

\* The catch block of addGuest.
AddGuestCatch(error, guestConfig) ==
  IF error.status = 400
    THEN ValidationError(Message("client", "Invalid guest configuration", 0),
                         guestConfig)
  ELSE IF error.status = 403
    THEN PermissionError(Message("client", "Insufficient permissions to add guests", 0))
  ELSE IF error.status = 409
    THEN ConflictError(Message("client", "Guest already exists in space", 0))
  ELSE error

\* The error an operation surfaces to its caller when makeRequest throws.
Surfaced(op, arg, error) ==
  IF op = "addGuest" THEN AddGuestCatch(error, arg) ELSE error

\* makeRequest is entered: url and requestOptions are built, attempt = 0.
StartCall(c, op, arg, options) ==
  [IdleCall EXCEPT !.pc = "fetch", !.op = op, !.arg = arg,
                   !.url = [base |-> c.baseUrl, path |-> Endpoint(op)],
                   !.options = options,
                   !.request = requestOptions(c, options)]

\* One pass through the try/catch of the loop body, the fetch having
\* settled with `out`.
AttemptStep(c, k, out) ==
  LET err == AttemptError(out)
      seen == [k EXCEPT !.hist = Append(k.hist, Summary(out)),
                        !.response = out]
  IN IF err = NoError
       THEN [seen EXCEPT !.pc = "returned", !.result = Decode(out.body)]
     ELSE IF CatchThrows(c, k.attempt, err)
       THEN [seen EXCEPT !.pc = "threw", !.thrown = err,
                         !.error = Surfaced(k.op, k.arg, err)]
     ELSE [seen EXCEPT !.pc = "delay",
                       !.waits = Append(k.waits, backoffTime(c, k.attempt))]

\* The backoff timer fires: attempt++ and the loop condition is tested.  If
\* the loop ends without a return or a throw, the function returns undefined.
DelayStep(c, k) ==
  IF LoopContinues(c, k.attempt + 1)
    THEN [k EXCEPT !.pc = "fetch", !.attempt = k.attempt + 1]
    ELSE [k EXCEPT !.pc = "returned", !.attempt = k.attempt + 1,
                   !.result = NoResult]

(***************************************************************************)
(* RateLimitManager                                                        *)
(***************************************************************************)
\* Quotas and windows, scaled down: the program has 1000 and 5000 requests
\* per 3600 s and 100 requests per 60 s.
StandardRequests == 2

PremiumRequests == 3

BurstRequests == 2

HourSeconds == 3

MinuteSeconds == 1

\* limit.window * 1000: windows are in seconds, timestamps in milliseconds
MsPerSecond == 1000

\* The wall clock advances in steps of TickMs up to MaxClock.
TickMs == 500

MaxClock == 3000

\* The number of checkLimit calls made in one behaviour, and the number of
\* callers that may be waiting for a checkLimit promise at one time.
MaxChecks == 4

NumCallers == 2

Tiers == {"standard", "premium", "burst"}

\* this.limits
limits ==
  [standard |-> [requests |-> StandardRequests, window |-> HourSeconds],
   premium |-> [requests |-> PremiumRequests, window |-> HourSeconds],
   burst |-> [requests |-> BurstRequests, window |-> MinuteSeconds]]

\* Math.min(...keys)
MinOf(S) == CHOOSE m \in S : \A t \in S : m <= t

\* now - (limit.window * 1000)
windowStart(tier, now) == now - limits[tier].window * MsPerSecond

\* The loop that deletes the entries with timestamp < windowStart.
CleanOld(u, tier, now) == {t \in u : ~(t < windowStart(tier, now))}

\* A quota test that lets one request too many through.
LimitReached_OffByOne(u, tier, now) ==
  Cardinality(CleanOld(u, tier, now)) > limits[tier].requests

\* this.usage.size >= limit.requests, after the cleaning
LimitReached(u, tier, now) ==
  Cardinality(CleanOld(u, tier, now)) >= limits[tier].requests

\* A reset time that adds the window in seconds to a time in milliseconds.
resetTime_Seconds(u, tier, now) ==
  MinOf(CleanOld(u, tier, now)) + limits[tier].window

\* oldestRequest + (limit.window * 1000)
resetTime(u, tier, now) ==
  MinOf(CleanOld(u, tier, now)) + limits[tier].window * MsPerSecond

\* resetTime - now
waitTime(u, tier, now) == resetTime(u, tier, now) - now

\* new RateLimitError(`Rate limit exceeded. Reset in ${waitTime}ms`)
RateLimitError(wait) ==
  [name |-> "RateLimitError", text |-> "Rate limit exceeded. Reset in", ms |-> wait]

NoLimitError == [name |-> "none", text |-> "", ms |-> 0]

\* this.usage after checkLimit(tier) at time now: cleaned, and with the key
\* now set when the call does not throw (a Map holds a key once).
UsageAfter(u, tier, now) ==
  IF LimitReached(u, tier, now) THEN CleanOld(u, tier, now)
  ELSE CleanOld(u, tier, now) \cup {now}

\* What a checkLimit call leaves in the record of calls.
CheckRecord(u, tier, now) ==
  [tier |-> tier, at |-> now,
   ok |-> ~LimitReached(u, tier, now),
   error |-> IF LimitReached(u, tier, now)
               THEN RateLimitError(waitTime(u, tier, now))
               ELSE NoLimitError]

\* A request path that records each request in the ledger.
RequestUsage_Records(u, now) == u \cup {now}

\* this.usage after a wrapper call or an attempt of makeRequest: neither
\* refers to a RateLimitManager, the ledger is as it was.
RequestUsage(u, now) == u

(***************************************************************************)
(* Instances and concurrent calls                                          *)
(***************************************************************************)
\* No instance constructed, no call made.
NoClients == <<NoClient, NoClient>>

NoCall == [on |-> 0, k |-> IdleCall]

NoCalls == <<NoCall, NoCall>>

\* A constructor that keeps the configuration in one place for all instances.
InstancesAfterNew_Shared(cs, n, apiKey, e) ==
  <<NewClient(apiKey, e), NewClient(apiKey, e)>>

\* The constructor assigns this.apiKey, this.baseUrl and this.retryConfig:
\* properties of the instance under construction.
InstancesAfterNew(cs, n, apiKey, e) == [cs EXCEPT ![n] = NewClient(apiKey, e)]

\* An attempt counter that all calls in progress share.
CallsAfterDelay_SharedAttempt(c, ks, i) ==
  LET d == [ks EXCEPT ![i].k = DelayStep(c, ks[i].k)]
  IN [d EXCEPT ![1].k.attempt = d[i].k.attempt, ![2].k.attempt = d[i].k.attempt]

\* `let attempt` is local to one invocation of makeRequest: attempt++ after
\* the delay of call i changes call i alone.
CallsAfterDelay(c, ks, i) == [ks EXCEPT ![i].k = DelayStep(c, ks[i].k)]

(***************************************************************************)
(* FCGuestManager.bulkInviteGuests                                         *)
(***************************************************************************)
\* Guests per batch (the program has 10) and the longest guest list.
batchSize == 2

MaxGuests == 4

delayBetweenBatches == 2000

\* The wall clock of a bulk invitation advances in steps of BulkTickMs up
\* to BulkMaxClock.
BulkTickMs == 1000

BulkMaxClock == 3000

\* array.slice(0, size) and array.slice(size)
SliceTo(array, size) ==
  SubSeq(array, 1, IF size < Len(array) THEN size ELSE Len(array))

SliceFrom(array, size) == SubSeq(array, size + 1, Len(array))

RECURSIVE chunkArray(_, _)
\* A split that puts the whole array into one chunk.
chunkArray_OneChunk(array, size) == IF array = <<>> THEN <<>> ELSE <<array>>

\* chunkArray(array, size): slices of `size` elements from index 0 on
chunkArray(array, size) ==
  IF array = <<>> THEN <<>>
  ELSE <<SliceTo(array, size)>> \o chunkArray(SliceFrom(array, size), size)

\* A guest list of n guests; a guest is known by its position in the list.
RECURSIVE GuestList(_)
GuestList(n) == IF n = 0 THEN <<>> ELSE Append(GuestList(n - 1), n)

GuestEmail(g) == ToString(g)

\* { ...guest, customMessage }
GuestConfigAt(g) == [arr |-> FALSE, v |-> <<GuestEmail(g)>>]

\* No addGuest call made yet for any of n guests.
RECURSIVE IdleInvites(_)
IdleInvites(n) == IF n = 0 THEN <<>> ELSE Append(IdleInvites(n - 1), IdleCall)

\* batch.map(guest => this.gatherApi.addGuest(spaceId, {...})): every call
\* of the batch runs up to its first fetch.
RECURSIVE StartBatch(_, _, _)
StartBatch(c, inv, batch) ==
  IF batch = <<>> THEN inv
  ELSE StartBatch(c,
                  [inv EXCEPT ![Head(batch)] =
                     StartCall(c, "addGuest", GuestConfigAt(Head(batch)),
                               WrapperOptions("addGuest", GuestConfigAt(Head(batch))))],
                  Tail(batch))

\* What a promise of batchPromises resolves to: the value addGuest returned,
\* or { error: error.message, guest: guest.email } from the catch handler.
BatchResult(k, g) ==
  IF k.pc = "returned"
    THEN [failed |-> FALSE, value |-> k.result,
          error |-> Message("none", "", 0), guest |-> Undefined]
    ELSE [failed |-> TRUE, value |-> NoResult,
          error |-> k.error.message, guest |-> GuestEmail(g)]

RECURSIVE BatchResults(_, _)
BatchResults(inv, batch) ==
  IF batch = <<>> THEN <<>>
  ELSE <<BatchResult(inv[Head(batch)], Head(batch))>>
         \o BatchResults(inv, Tail(batch))

\* n is guestList.length, submitted the guests addGuest was called for (in
\* call order), delays the number of delay(delayBetweenBatches) calls.
NoBulk ==
  [pc |-> "idle", n |-> 0, batches |-> <<>>, i |-> 0, results |-> <<>>,
   submitted |-> <<>>, delays |-> 0, timer |-> 0, settledAt |-> 0]

\* results.filter(r => !r.error): reading .error of null or undefined throws
\* a TypeError.
CountThrows(results) ==
  \E a \in DOMAIN results :
    ~results[a].failed /\ results[a].value.value \in {"null", Undefined}

\* The statements after the loop: the two counts, then return results.
BulkFinish(b) ==
  IF CountThrows(b.results) THEN [b EXCEPT !.pc = "rejected"]
  ELSE [b EXCEPT !.pc = "done"]

\* Every promise of the batch has settled: Promise.all resolves.
BatchSettled(inv, batch) ==
  \A a \in DOMAIN batch : inv[batch[a]].pc \in {"returned", "threw"}

\* bulkInviteGuests after a step of one of its addGuest calls at time now:
\* when the batch has settled, the results are pushed and either the delay
\* before the next batch is set or the function finishes.
BulkAfterStep(b, inv, g, now) ==
  LET seen == IF inv[g].pc \in {"returned", "threw"}
                THEN [b EXCEPT !.settledAt = now] ELSE b
  IN IF ~BatchSettled(inv, b.batches[b.i]) THEN seen
     ELSE LET pushed == [seen EXCEPT !.results =
                           b.results \o BatchResults(inv, b.batches[b.i])]
          IN IF b.i < Len(b.batches)
               THEN [pushed EXCEPT !.pc = "delay",
                                   !.delays = b.delays + 1,
                                   !.timer = now + delayBetweenBatches]
               ELSE BulkFinish(pushed)

(***************************************************************************)
(* POCExecutor and the FCGuestManager operations it uses                   *)
(***************************************************************************)
\* The default of fcConfig.contactEmail.
ContactEmail == "contact@firstcontact.lgbt"

\* Values of process.env.FC_CONTACT_EMAIL and process.env.NODE_ENV.
PocEmails == {Undefined, "", "not-an-email", ContactEmail}

PocNodeEnvs == {Undefined, "test"}

\* /^[^\s@]+@[^\s@]+\.[^\s@]+$/.test(s), for the values of PocEmails
EmailRegexTest(s) == s = ContactEmail

\* Bodies of the responses to the requests of executePOC.  "moderator" and
\* "member" are JSON objects whose guests list holds the contact with that
\* role; "none" is a JSON object without a guests property.
PocOutcomes ==
  {[net |-> TRUE, status |-> NoStatus, body |-> "invalid"],
   [net |-> FALSE, status |-> 200, body |-> "moderator"],
   [net |-> FALSE, status |-> 200, body |-> "member"],
   [net |-> FALSE, status |-> 200, body |-> "none"],
   [net |-> FALSE, status |-> 200, body |-> "null"],
   [net |-> FALSE, status |-> 403, body |-> "none"],
   [net |-> FALSE, status |-> 500, body |-> "none"]}

\* null, as a value held by a variable or property
Null == [value |-> "null"]

\* An error made with new Error(`${prefix}: ${error.message}`), and the
\* errors thrown by the executor's own checks and by the runtime.
PocError(prefix, cause) == [prefix |-> prefix, cause |-> cause]

NoPocError == PocError("", Message("none", "", 0))

OwnError(text) == PocError("", Message("executor", text, 0))

NullDeref == Message("runtime", "Cannot read properties of null", 0)

\* The report of generateImplementationReport and the lines of
\* displaySuccessSummary that speak of requests.
NoReport ==
  [generated |-> FALSE, safetyFeaturesEnabled |-> FALSE,
   customMessageSent |-> FALSE]

ImplementationReport ==
  [generated |-> TRUE, safetyFeaturesEnabled |-> TRUE,
   customMessageSent |-> TRUE]

NoSummary == [shown |-> FALSE, safetyFeatures |-> "", invitation |-> ""]

SuccessSummary ==
  [shown |-> TRUE, safetyFeatures |-> "Configured",
   invitation |-> "Sent successfully"]

\* new POCExecutor(): this.results, and no executePOC in progress.  issued
\* and finished list the requests made and settled so far, moderator is the
\* addFCContactAsModerator invocation, space the local of that name in
\* createFCRemoteOffice.
NoPoc ==
  [pc |-> "idle",
   env |-> [FC_CONTACT_EMAIL |-> Undefined, NODE_ENV |-> Undefined],
   results |-> [success |-> FALSE, space |-> Null, fcContact |-> Null,
                report |-> NoReport, errors |-> <<>>],
   issued |-> <<>>, finished |-> <<>>, space |-> NoResult,
   moderator |-> [pc |-> "idle", result |-> NoResult, error |-> NoError],
   summary |-> NoSummary, stepThrew |-> "none", cleanups |-> 0,
   saved |-> FALSE, outcome |-> "pending", rethrown |-> NoPocError]

\* The method fetch uses: options.method, GET when there is none.
FetchMethod(request) ==
  IF "method" \in request.keys THEN request.method ELSE "GET"

\* A wrapper of the client is called: the request it makes.
RequestOf(c, op, arg) == StartCall(c, op, arg, WrapperOptions(op, arg))

PocIssued(p, k) ==
  [p EXCEPT !.issued = Append(p.issued,
                              [op |-> k.op, method |-> FetchMethod(k.request),
                               path |-> k.url.path])]

PocFinished(p, k) ==
  [p EXCEPT !.finished = Append(p.finished,
                                [op |-> k.op, ok |-> k.pc = "returned",
                                 result |-> k.result, error |-> k.error])]

\* handleError without the push to results.errors.
PocCatch_NoRecord(p, step, error) ==
  [p EXCEPT !.pc = "cleanup", !.stepThrew = step, !.rethrown = error]

\* The catch block of executePOC: handleError pushes one entry to
\* results.errors, the error is rethrown, and the finally block is next.
PocCatch(p, step, error) ==
  [p EXCEPT !.pc = "cleanup", !.stepThrew = step,
            !.results.errors = Append(p.results.errors, [message |-> error]),
            !.rethrown = error]

\* validateEnvironment: the error it throws, NoPocError when it passes.
ValidateError(e, p) ==
  IF Falsy(e.GATHER_API_KEY) \/ Falsy(p.env.FC_CONTACT_EMAIL)
    THEN OwnError("Missing required environment variables")
  ELSE IF ~EmailRegexTest(p.env.FC_CONTACT_EMAIL)
    THEN OwnError("FC_CONTACT_EMAIL is not a valid email address")
  ELSE NoPocError

\* fcContactConfig of addFCContactAsModerator
fcContactConfig(p) ==
  [arr |-> FALSE, v |-> <<Or(p.env.FC_CONTACT_EMAIL, ContactEmail)>>]

\* A createFCRemoteOffice that goes on whatever createSpace did.
SpaceStepThrows_Never(k) == FALSE

\* createFCRemoteOffice throws: createSpace threw, or space.url is read of
\* a space that is null.
SpaceStepThrows(k) == k.pc = "threw" \/ k.result = Null

\* The error createRemoteOffice wraps.
SpaceStepCause(k) == IF k.pc = "threw" THEN k.error.message ELSE NullDeref

\* A sendFCModeratorWelcome that lets the failure of sendInvitation through.
WelcomeThrows_Rethrown(k) == k.pc = "threw"

\* sendFCModeratorWelcome catches every error of sendInvitation and returns
\* null.
WelcomeThrows(k) == FALSE

\* verifyImplementation after getSpace: the error thrown, if any.
SpaceCheckThrows(k) == k.pc = "threw" \/ k.result = Null

SpaceCheckCause(k) ==
  IF k.pc = "threw" THEN k.error.message
  ELSE Message("executor", "Space verification failed", 0)

\* verifyImplementation after getGuestList: guestList.guests?.find(...) and
\* the two tests on fcGuest.
GuestCheckThrows(k) == k.pc = "threw" \/ k.result.value # "moderator"

GuestCheckCause(k) ==
  IF k.pc = "threw" THEN k.error.message
  ELSE IF k.result = Null THEN NullDeref
  ELSE IF k.result.value = "member"
    THEN Message("executor", "FC contact does not have moderator role", 0)
  ELSE Message("executor", "FC contact not found in guest list", 0)

\* The state of executePOC and the request in progress, as a pair.
PocPair(p, k) == [poc |-> p, call |-> k]

\* A step of executePOC ends in the catch block.
PocThrows(p, k, step, prefix, cause) ==
  PocPair(PocCatch(PocFinished(p, k), step, PocError(prefix, cause)), k)

\* A step of executePOC goes on to the request `op`.
PocGoesOn(p, k, c, op, arg) ==
  LET next == RequestOf(c, op, arg)
  IN PocPair([PocIssued(PocFinished(p, k), next) EXCEPT !.pc = op], next)

\* executePOC is entered: validateEnvironment, initializeManager, and
\* createRemoteOffice up to the createSpace request.
PocStart(p, e) ==
  IF ValidateError(e, p) # NoPocError
    THEN [poc |-> PocCatch(p, "validation", ValidateError(e, p)),
          call |-> IdleCall, client |-> NoClient]
  ELSE IF CtorThrows(e.GATHER_API_KEY, e)
    THEN [poc |-> PocCatch(p, "initialisation",
                           PocError("Failed to initialize FC Guest Manager",
                                    Message("client", "Gather.Town API key is required", 0))),
          call |-> IdleCall, client |-> NoClient]
  ELSE LET c == NewClient(e.GATHER_API_KEY, e)
           next == RequestOf(c, "createSpace", Payload)
       IN [poc |-> [PocIssued(p, next) EXCEPT !.pc = "createSpace"],
           call |-> next, client |-> c]

\* createSpace has settled: createFCRemoteOffice throws, or goes on to
\* configureSafetyFeatures(space.id).
AfterCreateSpace(p, c, k) ==
  IF SpaceStepThrows(k)
    THEN PocThrows(p, k, "space creation", "Failed to create remote office",
                   SpaceStepCause(k))
    ELSE PocGoesOn([p EXCEPT !.space = k.result], k, c, "updateSpace", Payload)

\* updateSpace has settled: configureSafetyFeatures returns whatever the
\* outcome, createFCRemoteOffice returns space, results.space is set, and
\* addFCContactAsModerator(space.id) calls addGuest.
AfterUpdateSpace(p, c, k) ==
  PocGoesOn([p EXCEPT !.results.space = p.space, !.moderator.pc = "addGuest"],
            k, c, "addGuest", fcContactConfig(p))

\* addGuest has settled: addFCContactAsModerator rethrows its error, or goes
\* on to sendFCModeratorWelcome.
AfterAddGuest(p, c, k) ==
  IF k.pc = "threw"
    THEN PocThrows([p EXCEPT !.moderator.pc = "threw",
                             !.moderator.error = k.error],
                   k, "guest addition", "Failed to add FC contact",
                   k.error.message)
    ELSE PocGoesOn([p EXCEPT !.moderator.pc = "welcome",
                             !.moderator.result = k.result],
                   k, c, "sendInvitation", Payload)

\* sendInvitation has settled: addFCContactAsModerator returns the result of
\* addGuest, results.fcContact is set, and verifyImplementation calls
\* getSpace.
AfterSendInvitation(p, c, k) ==
  IF WelcomeThrows(k)
    THEN PocThrows([p EXCEPT !.moderator.pc = "threw",
                             !.moderator.error = k.error],
                   k, "guest addition", "Failed to add FC contact",
                   k.error.message)
    ELSE PocGoesOn([p EXCEPT !.moderator.pc = "returned",
                             !.results.fcContact = p.moderator.result],
                   k, c, "getSpace", NoData)

\* getSpace has settled.
AfterGetSpace(p, c, k) ==
  IF SpaceCheckThrows(k)
    THEN PocThrows(p, k, "verification", "Verification failed",
                   SpaceCheckCause(k))
    ELSE PocGoesOn(p, k, c, "getGuestList", NoData)

\* getGuestList has settled: verification throws, or generateReport,
\* displaySuccessSummary and results.success = true follow, and the finally
\* block is next.
AfterGetGuestList(p, c, k) ==
  IF GuestCheckThrows(k)
    THEN PocThrows(p, k, "verification", "Verification failed",
                   GuestCheckCause(k))
    ELSE PocPair([PocFinished(p, k) EXCEPT
                    !.pc = "cleanup",
                    !.results.report = ImplementationReport,
                    !.summary = SuccessSummary,
                    !.results.success = TRUE],
                 k)

\* executePOC resumes after the request it awaited.
PocStep(p, c, k) ==
  CASE p.pc = "createSpace" -> AfterCreateSpace(p, c, k)
    [] p.pc = "updateSpace" -> AfterUpdateSpace(p, c, k)
    [] p.pc = "addGuest" -> AfterAddGuest(p, c, k)
    [] p.pc = "sendInvitation" -> AfterSendInvitation(p, c, k)
    [] p.pc = "getSpace" -> AfterGetSpace(p, c, k)
    [] OTHER -> AfterGetGuestList(p, c, k)

\* The finally block: cleanup, which saves the results unless NODE_ENV is
\* test (a failed write is only warned about); then executePOC settles.
PocCleanup(p, written) ==
  [p EXCEPT !.pc = "settled", !.cleanups = p.cleanups + 1,
            !.saved = p.env.NODE_ENV # "test" /\ written,
            !.outcome = IF p.stepThrew = "none" THEN "returned" ELSE "rejected"]

(***************************************************************************)
(* State machine                                                           *)
(***************************************************************************)
MultiIdle ==
  /\ clients = NoClients
  /\ calls = NoCalls
  /\ bulk = NoBulk
  /\ invites = <<>>
  /\ poc = NoPoc

\* new RateLimitManager(): this.usage = new Map()
LedgerInit ==
  /\ clock = 0
  /\ usage = {}
  /\ checks = <<>>
  /\ inflight = 0

ClientInit ==
  /\ env \in [GATHER_API_KEY : EnvApiKeys, GATHER_BASE_URL : EnvBaseUrls]
  /\ ctor = NoCtor
  /\ client = NoClient
  /\ call = IdleCall

Init ==
  /\ ClientInit
  /\ LedgerInit
  /\ MultiIdle

\* new GatherAPIClient(apiKey)
Construct(apiKey) ==
  /\ ~client.constructed
  /\ ctor' = [called |-> TRUE, arg |-> apiKey, threw |-> CtorThrows(apiKey, env)]
  /\ client' = IF CtorThrows(apiKey, env) THEN NoClient
               ELSE NewClient(apiKey, env)
  /\ UNCHANGED <<env, call>>
  /\ UNCHANGED ledgerVars
  /\ UNCHANGED multiVars
  /\ UNCHANGED bulkVars
  /\ UNCHANGED pocVars

\* A caller invokes a wrapper, or makeRequest itself.
Call(op, arg, options) ==
  /\ client.constructed
  /\ call.pc \in {"idle", "returned", "threw"}
  /\ call' = StartCall(client, op, arg, options)
  /\ usage' = RequestUsage(usage, clock)
  /\ UNCHANGED <<env, ctor, client>>
  /\ UNCHANGED <<clock, checks, inflight>>
  /\ UNCHANGED multiVars
  /\ UNCHANGED bulkVars
  /\ UNCHANGED pocVars

\* The fetch of the current attempt settles.
Fetch(out) ==
  /\ call.pc = "fetch"
  /\ call' = AttemptStep(client, call, out)
  /\ usage' = RequestUsage(usage, clock)
  /\ UNCHANGED <<env, ctor, client>>
  /\ UNCHANGED <<clock, checks, inflight>>
  /\ UNCHANGED multiVars
  /\ UNCHANGED bulkVars
  /\ UNCHANGED pocVars

\* The backoff delay elapses.
Delay ==
  /\ call.pc = "delay"
  /\ call' = DelayStep(client, call)
  /\ UNCHANGED <<env, ctor, client>>
  /\ UNCHANGED ledgerVars
  /\ UNCHANGED multiVars
  /\ UNCHANGED bulkVars
  /\ UNCHANGED pocVars

Next ==
  \/ \E apiKey \in ApiKeyArgs : Construct(apiKey)
  \/ \E op \in Ops : \E arg \in OpArgs(op) : \E options \in OpOptions(op, arg) :
       Call(op, arg, options)
  \/ \E out \in FetchOutcomes : Fetch(out)
  \/ Delay

Spec == Init /\ [][Next]_vars

(***************************************************************************)
(* State machine of the rate limit manager                                 *)
(***************************************************************************)
\* A caller invokes checkLimit(tier).  The function has no await: its body
\* runs to completion when it is called, and the caller resumes later.
CheckLimit(tier) ==
  /\ Len(checks) < MaxChecks
  /\ inflight < NumCallers
  /\ usage' = UsageAfter(usage, tier, clock)
  /\ checks' = Append(checks, CheckRecord(usage, tier, clock))
  /\ inflight' = inflight + 1
  /\ UNCHANGED clock
  /\ UNCHANGED clientVars
  /\ UNCHANGED multiVars
  /\ UNCHANGED bulkVars
  /\ UNCHANGED pocVars

\* A caller that awaited checkLimit resumes.
Resume ==
  /\ inflight > 0
  /\ inflight' = inflight - 1
  /\ UNCHANGED <<clock, usage, checks>>
  /\ UNCHANGED clientVars
  /\ UNCHANGED multiVars
  /\ UNCHANGED bulkVars
  /\ UNCHANGED pocVars

\* Time passes.
Tick ==
  /\ clock + TickMs <= MaxClock
  /\ clock' = clock + TickMs
  /\ UNCHANGED <<usage, checks, inflight>>
  /\ UNCHANGED clientVars
  /\ UNCHANGED multiVars
  /\ UNCHANGED bulkVars
  /\ UNCHANGED pocVars

\* The client is not used: one environment, no client constructed.
LedgerOnlyInit ==
  /\ env = [GATHER_API_KEY |-> Undefined, GATHER_BASE_URL |-> Undefined]
  /\ ctor = NoCtor
  /\ client = NoClient
  /\ call = IdleCall
  /\ LedgerInit
  /\ MultiIdle

LedgerNext ==
  \/ \E tier \in Tiers : CheckLimit(tier)
  \/ Resume
  \/ Tick

SpecLedger == LedgerOnlyInit /\ [][LedgerNext]_vars

(***************************************************************************)
(* A client and a rate limit manager in one process.  The client is given  *)
(* one key, two operations and four outcomes per attempt; the callers of   *)
(* checkLimit use the burst tier.                                          *)
(***************************************************************************)
BothOps == {"createSpace", "addGuest"}

BothOutcomes ==
  {[net |-> TRUE, status |-> NoStatus, body |-> "invalid"],
   [net |-> FALSE, status |-> 200, body |-> "m1"],
   [net |-> FALSE, status |-> 400, body |-> "none"],
   [net |-> FALSE, status |-> 500, body |-> "none"]}

BothInit ==
  /\ env = [GATHER_API_KEY |-> Undefined, GATHER_BASE_URL |-> Undefined]
  /\ ctor = NoCtor
  /\ client = NoClient
  /\ call = IdleCall
  /\ LedgerInit
  /\ MultiIdle

BothNext ==
  \/ Construct("key_arg")
  \/ \E op \in BothOps : \E arg \in {CHOOSE a \in OpArgs(op) : TRUE} :
       Call(op, arg, WrapperOptions(op, arg))
  \/ \E out \in BothOutcomes : Fetch(out)
  \/ Delay
  \/ CheckLimit("burst")
  \/ Resume
  \/ Tick

SpecBoth == BothInit /\ [][BothNext]_vars

(***************************************************************************)
(* Two instances and two calls in progress.  Instances are constructed     *)
(* with or without a key argument, calls are made through two wrappers,    *)
(* and an attempt has one of the four outcomes of BothOutcomes.            *)
(***************************************************************************)
MultiEnvs ==
  {[GATHER_API_KEY |-> Undefined, GATHER_BASE_URL |-> Undefined],
   [GATHER_API_KEY |-> "key_env", GATHER_BASE_URL |-> Undefined]}

MultiApiKeyArgs == {Undefined, "key_arg"}

MultiOps == {"getSpace", "addGuest"}

MultiInit ==
  /\ env \in MultiEnvs
  /\ ctor = NoCtor
  /\ client = NoClient
  /\ call = IdleCall
  /\ LedgerInit
  /\ MultiIdle

\* new GatherAPIClient(apiKey) for instance n; no instance when it throws
NewAt(n, apiKey) ==
  /\ ~clients[n].constructed
  /\ ~CtorThrows(apiKey, env)
  /\ clients' = InstancesAfterNew(clients, n, apiKey, env)
  /\ UNCHANGED calls
  /\ UNCHANGED clientVars
  /\ UNCHANGED ledgerVars
  /\ UNCHANGED bulkVars
  /\ UNCHANGED pocVars

\* Call i is made on instance n.
CallAt(i, n, op, arg, options) ==
  /\ clients[n].constructed
  /\ calls[i].k.pc \in {"idle", "returned", "threw"}
  /\ calls' = [calls EXCEPT ![i] =
                 [on |-> n, k |-> StartCall(clients[n], op, arg, options)]]
  /\ UNCHANGED clients
  /\ UNCHANGED clientVars
  /\ UNCHANGED ledgerVars
  /\ UNCHANGED bulkVars
  /\ UNCHANGED pocVars

\* The fetch of the current attempt of call i settles.
FetchAt(i, out) ==
  /\ calls[i].k.pc = "fetch"
  /\ calls' = [calls EXCEPT ![i].k =
                 AttemptStep(clients[calls[i].on], calls[i].k, out)]
  /\ UNCHANGED clients
  /\ UNCHANGED clientVars
  /\ UNCHANGED ledgerVars
  /\ UNCHANGED bulkVars
  /\ UNCHANGED pocVars

\* The backoff delay of call i elapses.
DelayAt(i) ==
  /\ calls[i].k.pc = "delay"
  /\ calls' = CallsAfterDelay(clients[calls[i].on], calls, i)
  /\ UNCHANGED clients
  /\ UNCHANGED clientVars
  /\ UNCHANGED ledgerVars
  /\ UNCHANGED bulkVars
  /\ UNCHANGED pocVars

MultiNext ==
  \/ \E n \in DOMAIN clients : \E apiKey \in MultiApiKeyArgs : NewAt(n, apiKey)
  \/ \E i \in DOMAIN calls : \E n \in DOMAIN clients : \E op \in MultiOps :
       \E arg \in {CHOOSE a \in OpArgs(op) : TRUE} :
         CallAt(i, n, op, arg, WrapperOptions(op, arg))
  \/ \E i \in DOMAIN calls : \E out \in BothOutcomes : FetchAt(i, out)
  \/ \E i \in DOMAIN calls : DelayAt(i)

SpecMulti == MultiInit /\ [][MultiNext]_vars

(***************************************************************************)
(* One invocation of bulkInviteGuests on a manager whose client was        *)
(* constructed with a key.  A fetch returns 200 with a JSON object, 200     *)
(* with the JSON value null, or 500.                                       *)
(***************************************************************************)
BulkOutcomes ==
  {[net |-> FALSE, status |-> 200, body |-> "m1"],
   [net |-> FALSE, status |-> 200, body |-> "null"],
   [net |-> FALSE, status |-> 500, body |-> "none"]}

\* new FCGuestManager(gatherApiKey): this.gatherApi = new GatherAPIClient(...)
BulkInit ==
  /\ env = [GATHER_API_KEY |-> Undefined, GATHER_BASE_URL |-> Undefined]
  /\ ctor = [called |-> TRUE, arg |-> "key_arg", threw |-> FALSE]
  /\ client = NewClient("key_arg", env)
  /\ call = IdleCall
  /\ LedgerInit
  /\ MultiIdle

\* bulkInviteGuests(spaceId, guestList) with n guests: the batches are cut
\* and the calls of the first batch are made; with no guest it returns.
BulkInvite(n) ==
  /\ bulk.pc = "idle"
  /\ client.constructed
  /\ LET batches == chunkArray(GuestList(n), batchSize)
     IN IF batches = <<>>
          THEN /\ bulk' = BulkFinish(bulk)
               /\ invites' = <<>>
          ELSE /\ bulk' = [bulk EXCEPT !.pc = "batch", !.n = n,
                                       !.batches = batches, !.i = 1,
                                       !.submitted = batches[1]]
               /\ invites' = StartBatch(client, IdleInvites(n), batches[1])
  /\ UNCHANGED clientVars
  /\ UNCHANGED ledgerVars
  /\ UNCHANGED multiVars
  /\ UNCHANGED pocVars

\* The fetch of the current attempt of the call for guest g settles.
InviteFetch(g, out) ==
  /\ bulk.pc = "batch"
  /\ invites[g].pc = "fetch"
  /\ invites' = [invites EXCEPT ![g] = AttemptStep(client, invites[g], out)]
  /\ bulk' = BulkAfterStep(bulk, invites', g, clock)
  /\ UNCHANGED clientVars
  /\ UNCHANGED ledgerVars
  /\ UNCHANGED multiVars
  /\ UNCHANGED pocVars

\* The backoff delay of the call for guest g elapses.
InviteDelay(g) ==
  /\ bulk.pc = "batch"
  /\ invites[g].pc = "delay"
  /\ invites' = [invites EXCEPT ![g] = DelayStep(client, invites[g])]
  /\ bulk' = BulkAfterStep(bulk, invites', g, clock)
  /\ UNCHANGED clientVars
  /\ UNCHANGED ledgerVars
  /\ UNCHANGED multiVars
  /\ UNCHANGED pocVars

\* The timer of delay(delayBetweenBatches) fires, not before its time: i++
\* and the calls of the next batch are made.
NextBatch ==
  /\ bulk.pc = "delay"
  /\ clock >= bulk.timer
  /\ bulk' = [bulk EXCEPT !.pc = "batch", !.i = bulk.i + 1,
                           !.submitted = bulk.submitted \o bulk.batches[bulk.i + 1]]
  /\ invites' = StartBatch(client, invites, bulk.batches[bulk.i + 1])
  /\ UNCHANGED clientVars
  /\ UNCHANGED ledgerVars
  /\ UNCHANGED multiVars
  /\ UNCHANGED pocVars

\* Time passes while bulkInviteGuests is in progress.
BulkTick ==
  /\ bulk.pc \in {"batch", "delay"}
  /\ clock + BulkTickMs <= BulkMaxClock
  /\ clock' = clock + BulkTickMs
  /\ UNCHANGED <<usage, checks, inflight>>
  /\ UNCHANGED clientVars
  /\ UNCHANGED multiVars
  /\ UNCHANGED bulkVars
  /\ UNCHANGED pocVars

BulkNext ==
  \/ \E n \in 0..MaxGuests : BulkInvite(n)
  \/ \E g \in DOMAIN invites : \E out \in BulkOutcomes : InviteFetch(g, out)
  \/ \E g \in DOMAIN invites : InviteDelay(g)
  \/ NextBatch
  \/ BulkTick

SpecBulk == BulkInit /\ [][BulkNext]_vars

(***************************************************************************)
(* One run of executePOC, as main() makes it.                              *)
(***************************************************************************)
PocRequests == {"createSpace", "updateSpace", "addGuest", "sendInvitation",
                "getSpace", "getGuestList"}

PocInit ==
  /\ env \in MultiEnvs
  /\ ctor = NoCtor
  /\ client = NoClient
  /\ call = IdleCall
  /\ LedgerInit
  /\ clients = NoClients
  /\ calls = NoCalls
  /\ bulk = NoBulk
  /\ invites = <<>>
  /\ poc \in {[NoPoc EXCEPT !.env = e] :
                e \in [FC_CONTACT_EMAIL : PocEmails, NODE_ENV : PocNodeEnvs]}

\* executor.executePOC()
ExecutePOC ==
  /\ poc.pc = "idle"
  /\ LET r == PocStart(poc, env)
     IN /\ poc' = r.poc
        /\ call' = r.call
        /\ client' = r.client
        /\ ctor' = IF ValidateError(env, poc) # NoPocError THEN ctor
                   ELSE [called |-> TRUE, arg |-> env.GATHER_API_KEY,
                         threw |-> CtorThrows(env.GATHER_API_KEY, env)]
  /\ UNCHANGED env
  /\ UNCHANGED ledgerVars
  /\ UNCHANGED multiVars
  /\ UNCHANGED bulkVars

\* The request executePOC awaits has settled, executePOC resumes.
PocContinue ==
  /\ poc.pc \in PocRequests
  /\ call.pc \in {"returned", "threw"}
  /\ poc' = PocStep(poc, client, call).poc
  /\ call' = PocStep(poc, client, call).call
  /\ UNCHANGED <<env, ctor, client>>
  /\ UNCHANGED ledgerVars
  /\ UNCHANGED multiVars
  /\ UNCHANGED bulkVars

\* The finally block runs and executePOC settles.
Cleanup(written) ==
  /\ poc.pc = "cleanup"
  /\ poc' = PocCleanup(poc, written)
  /\ UNCHANGED clientVars
  /\ UNCHANGED ledgerVars
  /\ UNCHANGED multiVars
  /\ UNCHANGED bulkVars

PocNext ==
  \/ ExecutePOC
  \/ \E out \in PocOutcomes : Fetch(out)
  \/ Delay
  \/ PocContinue
  \/ \E written \in BOOLEAN : Cleanup(written)

SpecPoc == PocInit /\ [][PocNext]_vars

(***************************************************************************)
(* Vocabulary of the properties                                            *)
(***************************************************************************)
Settled == call.pc \in {"returned", "threw"}

Attempts == Len(call.hist)

\* A status the retry policy names as retryable: 429 or any status >= 500.
RetryableStatus(s) == s = 429 \/ s >= 500

\* The attempt received an HTTP response with status s.
Received(h, s) == ~h.net /\ h.status = s

\* The attempt received a 2xx response whose body decodes as JSON.
ReceivedJson2xx(h) ==
  ~h.net /\ h.status >= 200 /\ h.status <= 299 /\ h.json # "invalid"

\* The call made exactly one attempt and failed on it, without a backoff wait.
FailedOnFirstAttempt ==
  call.pc = "threw" /\ Attempts = 1 /\ call.attempt = 0 /\ call.waits = <<>>

(***************************************************************************)
(* C1.  A request that receives a 500 response on every attempt makes      *)
(* exactly maxRetries + 1 attempts and then fails with the API error of    *)
(* status 500: it never fails earlier and never makes a further attempt.   *)
(***************************************************************************)
C1_Always500 ==
  (Attempts >= 1 /\ \A i \in 1..Attempts : Received(call.hist[i], 500))
    => /\ Attempts <= MaxRetries + 1
       /\ call.pc # "returned"
       /\ call.pc = "threw" =>
            /\ Attempts = MaxRetries + 1
            /\ call.thrown.name = "APIError"
            /\ call.thrown.status = 500

(***************************************************************************)
(* C2.  For 1 <= k <= maxRetries: when the first k attempts fail with a    *)
(* retryable status and attempt k + 1 receives a 2xx JSON response, the    *)
(* call succeeds on attempt k + 1 and returns the body of that response.   *)
(* A call never gives up with an error of retryable status while retries   *)
(* remain.                                                                 *)
(***************************************************************************)
C2_RetryThenSuccess ==
  /\ \A k \in 1..MaxRetries :
       ( /\ Attempts >= k + 1
         /\ \A i \in 1..k : ~call.hist[i].net /\ RetryableStatus(call.hist[i].status)
         /\ ReceivedJson2xx(call.hist[k + 1]) )
       => /\ call.pc = "returned"
          /\ Attempts = k + 1
          /\ call.attempt = k
          /\ Len(call.waits) = k
          /\ call.result = [value |-> call.response.body]
          /\ call.response.status = call.hist[k + 1].status
  /\ (call.pc = "threw" /\ Attempts <= MaxRetries)
       => ~RetryableStatus(call.thrown.status)

\* A 429, a 503 and a 500 followed by a 200 whose body is returned.
C2_Witness ==
  /\ call.pc = "returned"
  /\ Attempts = MaxRetries + 1
  /\ call.hist[1].status = 429
  /\ call.hist[2].status = 503
  /\ call.hist[3].status = 500
  /\ call.hist[4].status = 200
  /\ call.result = [value |-> "m1"]

(***************************************************************************)
(* C3.  When the first attempt receives a 2xx response with a              *)
(* JSON-decodable body, the call returns that decoded body after exactly   *)
(* one attempt, with no retry and no backoff wait.                         *)
(***************************************************************************)
C3_FirstAttemptSuccess ==
  (Attempts >= 1 /\ ReceivedJson2xx(call.hist[1]))
    => /\ call.pc = "returned"
       /\ Attempts = 1
       /\ call.attempt = 0
       /\ call.waits = <<>>
       /\ call.result = [value |-> call.response.body]
       /\ call.thrown = NoError

C3_Witness ==
  /\ call.pc = "returned"
  /\ Attempts = 1
  /\ call.hist[1].status = 201
  /\ call.result = [value |-> "m2"]

(***************************************************************************)
(* C4.  A response with a status in 400..499 other than 429 makes the call *)
(* fail on the attempt that received it, without retry or backoff wait     *)
(* after it, and the error makeRequest throws carries that status.         *)
(***************************************************************************)
C4_ClientErrorSurfaced ==
  \A i \in 1..Attempts :
    ( /\ ~call.hist[i].net
      /\ call.hist[i].status >= 400 /\ call.hist[i].status <= 499
      /\ call.hist[i].status # 429 )
    => /\ call.pc = "threw"
       /\ Attempts = i
       /\ Len(call.waits) = i - 1
       /\ call.thrown.status = call.hist[i].status

(***************************************************************************)
(* C5.  A 400 response makes the request fail on the first attempt, with   *)
(* zero retries, with a ValidationError that carries the request body that *)
(* was sent.  Stated for the 400 responses whose body is a JSON object.    *)
(***************************************************************************)
C5_ValidationError ==
  (Attempts >= 1 /\ Received(call.hist[1], 400) /\ call.hist[1].json = "object")
    => /\ FailedOnFirstAttempt
       /\ call.error.name = "ValidationError"
       /\ "body" \in call.request.keys
       /\ Stringify(call.error.data) = call.request.body

(***************************************************************************)
(* C6.  A network-level failure of an attempt is retryable: while retries  *)
(* remain the call waits the backoff and makes another attempt instead of  *)
(* failing on that attempt.                                                *)
(***************************************************************************)
C6_NetworkFailureRetried ==
  (Attempts >= 1 /\ Attempts <= MaxRetries /\ call.hist[Attempts].net)
    => /\ call.pc \in {"delay", "fetch"}
       /\ Len(call.waits) = Attempts

(***************************************************************************)
(* C7.  Constructing a client with the API key "" fails, and no network    *)
(* call is made, whatever the environment variables hold.                  *)
(***************************************************************************)
C7_EmptyKeyRejected ==
  (ctor.called /\ ctor.arg = "")
    => /\ ctor.threw
       /\ ~client.constructed
       /\ call = IdleCall

(***************************************************************************)
(* C8.  When the call fails after its retries are exhausted, the error     *)
(* surfaced carries the HTTP status and the message of the response of the *)
(* last attempt, for every sequence of failures with retryable statuses.   *)
(***************************************************************************)
C8_LastErrorSurfaced ==
  ( /\ call.pc = "threw"
    /\ Attempts = MaxRetries + 1
    /\ \A i \in 1..Attempts :
         ~call.hist[i].net /\ RetryableStatus(call.hist[i].status) )
    => /\ call.thrown.status = call.hist[Attempts].status
       /\ call.thrown.message =
            (IF call.response.body \in {"m1", "m2"}
               THEN Message("body", call.response.body, 0)
               ELSE Message("statusText", "", call.response.status))
       /\ call.error.status = call.hist[Attempts].status

(***************************************************************************)
(* C9.  No silent failure: a call that resolves has received a 2xx         *)
(* response on its last attempt and resolves with the decoded body of that *)
(* response; a call that does not resolve that way throws an error.        *)
(***************************************************************************)
C9_NoSilentFailure ==
  /\ call.pc = "returned"
       => /\ Attempts >= 1
          /\ ReceivedJson2xx(call.hist[Attempts])
          /\ call.response.status = call.hist[Attempts].status
          /\ call.result = [value |-> call.response.body]
          /\ call.result # NoResult
  /\ call.pc = "threw"
       => /\ call.thrown # NoError
          /\ call.error # NoError
          /\ call.result = NoResult
  /\ Attempts <= MaxRetries + 1
  /\ (Attempts = MaxRetries + 1 /\ call.pc # "fetch") => Settled

\* Four failed attempts: the call has thrown, it has not resolved.
C9_Witness ==
  /\ call.pc = "threw"
  /\ Attempts = MaxRetries + 1
  /\ call.hist[Attempts].status = 503
  /\ call.thrown.status = 503

(***************************************************************************)
(* C10.  A request that receives a 403 response fails with a               *)
(* PermissionError, and one that receives a 409 response with a            *)
(* ConflictError, without retry, whichever operation issued the request.   *)
(* Stated for the responses whose body is a JSON object.                   *)
(***************************************************************************)
C10_PermissionAndConflict ==
  \A i \in 1..Attempts :
    /\ (Received(call.hist[i], 403) /\ call.hist[i].json = "object")
         => /\ call.pc = "threw" /\ Attempts = i
            /\ call.error.name = "PermissionError"
    /\ (Received(call.hist[i], 409) /\ call.hist[i].json = "object")
         => /\ call.pc = "threw" /\ Attempts = i
            /\ call.error.name = "ConflictError"

(***************************************************************************)
(* Vocabulary of the rate ledger properties                                *)
(***************************************************************************)
\* The quota of a tier and the length of its window in milliseconds.
QuotaOf(t) == limits[t].requests

WindowOf(t) == limits[t].window * 1000

NumChecks == Len(checks)

\* Every checkLimit call so far was for tier t.
OnlyTier(t) == \A i \in 1..NumChecks : checks[i].tier = t

(***************************************************************************)
(* C11.  With calls for one tier of quota N and window W, from an empty    *)
(* ledger: the first N calls within W succeed, the (N+1)-th call within W  *)
(* fails with the rate-limit error, wherever the N+1 call times lie in the *)
(* window; and a call made more than W after the previous ones succeeds.   *)
(***************************************************************************)
C11_Quota ==
  \A t \in Tiers :
    OnlyTier(t) =>
      /\ \A i \in 1..NumChecks :
           (i <= QuotaOf(t) /\ checks[i].at - checks[1].at < WindowOf(t))
             => checks[i].ok
      /\ ( /\ NumChecks >= QuotaOf(t) + 1
           /\ checks[QuotaOf(t) + 1].at - checks[1].at < WindowOf(t) )
           => /\ ~checks[QuotaOf(t) + 1].ok
              /\ checks[QuotaOf(t) + 1].error.name = "RateLimitError"
      /\ \A i \in 2..NumChecks :
           checks[i].at - checks[i - 1].at > WindowOf(t) => checks[i].ok

(***************************************************************************)
(* C12.  A failing checkLimit raises a RateLimitError that carries the     *)
(* wait time (oldest in-window timestamp + window - now); the wait time is *)
(* between 0 and the window length, and the failing call records no new    *)
(* timestamp.                                                              *)
(***************************************************************************)
C12_WaitTime ==
  [][ (Len(checks') = Len(checks) + 1 /\ ~checks'[Len(checks')].ok)
        => LET e == checks'[Len(checks')]
               W == WindowOf(e.tier)
               live == {t \in usage : t >= clock - W}
           IN /\ e.error.name = "RateLimitError"
              /\ live # {}
              /\ \E oldest \in live :
                   /\ \A t \in live : oldest <= t
                   /\ e.error.ms = oldest + W - e.at
              /\ e.at = clock
              /\ e.error.ms >= 0
              /\ e.error.ms <= W
              /\ usage' \subseteq usage ]_vars

\* A call was refused and told to wait for a part of the window.
C12_Witness ==
  \E i \in 1..NumChecks :
    /\ ~checks[i].ok
    /\ checks[i].error.ms > 0
    /\ checks[i].error.ms < WindowOf(checks[i].tier)

(***************************************************************************)
(* C13.  With checkLimit calls for one tier issued concurrently, every     *)
(* call cleans, tests and records in one step, and the number of entries   *)
(* recorded inside the window never exceeds the quota of the tier.         *)
(***************************************************************************)
C13_EntriesWithinQuota ==
  \A t \in Tiers :
    OnlyTier(t) =>
      Cardinality({u \in usage : u >= clock - WindowOf(t)}) <= QuotaOf(t)

\* Two callers wait for their checkLimit promises, the ledger is full and
\* the last call was refused.
C13_Witness ==
  /\ inflight = 2
  /\ NumChecks >= 3
  /\ OnlyTier("standard")
  /\ Cardinality(usage) = QuotaOf("standard")
  /\ ~checks[NumChecks].ok

(***************************************************************************)
(* C20.  On a ledger shared by the tiers, the number of successful         *)
(* checkLimit(t) calls within any window of the length of tier t never     *)
(* exceeds the quota of t.  Stated for calls made at pairwise different    *)
(* times.                                                                  *)
(***************************************************************************)
C20_TierQuota ==
  (\A i, j \in 1..NumChecks : i # j => checks[i].at # checks[j].at)
    => \A t \in Tiers : \A i \in 1..NumChecks :
         Cardinality({j \in 1..NumChecks :
                        /\ checks[j].tier = t
                        /\ checks[j].ok
                        /\ checks[j].at <= checks[i].at
                        /\ checks[j].at > checks[i].at - WindowOf(t)})
           <= QuotaOf(t)

(***************************************************************************)
(* C14.  No client operation consults or modifies a rate ledger: a step of *)
(* the client (construction, a wrapper call, an attempt, a backoff) leaves *)
(* the usage of the rate limit manager and its record of calls unchanged,  *)
(* and the usage changes only in a checkLimit call.                        *)
(***************************************************************************)
C14_LedgerUntouched ==
  [][ /\ (call' # call \/ client' # client \/ ctor' # ctor)
        => (usage' = usage /\ checks' = checks)
      /\ usage' # usage => Len(checks') = Len(checks) + 1 ]_vars

\* A request was retried to exhaustion while the ledger held the one entry
\* that a checkLimit call recorded.
C14_Witness ==
  /\ call.pc = "threw"
  /\ Len(call.hist) = MaxRetries + 1
  /\ Len(checks) = 1
  /\ usage = {checks[1].at}

(***************************************************************************)
(* C17.  The wait after failed attempt k (k = 0, 1, ...) and before        *)
(* attempt k+1 is exactly backoffMs * 2^k: 1000, 2000, 4000 ms.  No wait   *)
(* follows the final attempt, so a request that exhausts its retries has   *)
(* waited 7000 ms in total.                                                *)
(***************************************************************************)
RECURSIVE TotalWait(_)
TotalWait(ws) == IF ws = <<>> THEN 0 ELSE Head(ws) + TotalWait(Tail(ws))

C17_Backoff ==
  /\ \A i \in DOMAIN call.waits : call.waits[i] = 1000 * 2^(i - 1)
  /\ call.pc = "fetch" => Len(call.waits) = Attempts
  /\ call.pc = "delay" => Len(call.waits) = Attempts
  /\ Settled => Len(call.waits) = Attempts - 1
  /\ (Settled /\ Attempts = 4) => TotalWait(call.waits) = 7000

\* A request failed with a retryable error on all four attempts.
C17_Witness ==
  /\ call.pc = "threw"
  /\ Attempts = 4
  /\ call.waits = <<1000, 2000, 4000>>
  /\ \A i \in 1..4 : call.hist[i].net \/ RetryableStatus(call.hist[i].status)

(***************************************************************************)
(* C18.  Every attempt of every request carries the three standard         *)
(* headers, Authorization: Bearer <stored API key>, Content-Type:          *)
(* application/json and the fixed User-Agent, retry attempts and requests  *)
(* made with the caller's own options (method, body, headers) included.    *)
(***************************************************************************)
C18_StandardHeaders ==
  Attempts >= 1 =>
    /\ call.request.headers.Authorization =
         [scheme |-> "Bearer", token |-> client.apiKey]
    /\ call.request.headers.ContentType = "application/json"
    /\ call.request.headers.UserAgent = "FC-GuestList-POC/1.0"

(***************************************************************************)
(* Vocabulary of the claims about instances and concurrent calls           *)
(***************************************************************************)
SettledAt(i) == calls[i].k.pc \in {"returned", "threw"}

\* Calls i and j were made with the same request.
SameRequest(i, j) ==
  /\ calls[i].k.op = calls[j].k.op
  /\ calls[i].k.arg = calls[j].k.arg
  /\ calls[i].k.options = calls[j].k.options

\* Calls i and j have received the same responses so far.
SameResponses(i, j) == calls[i].k.hist = calls[j].k.hist

\* Calls i and j made the same attempts with the same waits and came to the
\* same outcome.
SameCourse(i, j) ==
  /\ SettledAt(i) <=> SettledAt(j)
  /\ calls[i].k.waits = calls[j].k.waits
  /\ calls[i].k.result = calls[j].k.result
  /\ calls[i].k.error = calls[j].k.error
  /\ calls[i].k.request = calls[j].k.request
  /\ calls[i].k.url = calls[j].k.url
  /\ calls[i].k.pc = calls[j].k.pc => calls[i].k.attempt = calls[j].k.attempt

\* Instances n and m were constructed with the same configuration.
SameConfig(n, m) ==
  /\ clients[n].constructed /\ clients[m].constructed
  /\ clients[n].apiKey = clients[m].apiKey
  /\ clients[n].baseUrl = clients[m].baseUrl
  /\ clients[n].retryConfig = clients[m].retryConfig

\* What the responses to the own attempts of call i say about its course:
\* every response but the last asked for a retry, and the call is over
\* exactly when the last one did not or was the response to attempt 4.
OwnResponsesDecide(i) ==
  LET h == calls[i].k.hist
      Retry(r) == ~r.net /\ r.json # "invalid" /\ r.json # "null"
                    /\ RetryableStatus(r.status)
  IN /\ Len(h) <= 4
     /\ \A a \in 1..(Len(h) - 1) : Retry(h[a])
     /\ Len(h) >= 1 => (SettledAt(i) <=> (~Retry(h[Len(h)]) \/ Len(h) = 4))
     /\ SettledAt(i) => calls[i].k.attempt = Len(h) - 1

(***************************************************************************)
(* C15.  After construction no client operation modifies apiKey, baseUrl   *)
(* or retryConfig, and each makeRequest call keeps its own attempt         *)
(* counter: under any interleaving of concurrent calls on one client, the  *)
(* number of attempts and the outcome of each call depend only on the      *)
(* responses to that call's own attempts.                                  *)
(***************************************************************************)
C15_OwnAttemptCounter ==
  /\ [](\A i \in DOMAIN calls : calls[i].on # 0 => OwnResponsesDecide(i))
  /\ [](\A i, j \in DOMAIN calls :
          (i # j /\ calls[i].on # 0 /\ calls[i].on = calls[j].on
             /\ SameRequest(i, j) /\ SameResponses(i, j)) => SameCourse(i, j))
  /\ [][ /\ \A n \in DOMAIN clients :
              clients[n].constructed => clients'[n] = clients[n]
         /\ \A i, j \in DOMAIN calls :
              (i # j /\ calls'[i] # calls[i]) => calls'[j] = calls[j] ]_vars

\* Two calls on one instance: one failed after four attempts, the other
\* returned on its second attempt.
C15_Witness ==
  /\ calls[1].on # 0 /\ calls[1].on = calls[2].on
  /\ calls[1].k.pc = "threw" /\ Len(calls[1].k.hist) = 4
  /\ calls[2].k.pc = "returned" /\ Len(calls[2].k.hist) = 2

(***************************************************************************)
(* C19.  Two clients constructed with identical configuration behave       *)
(* identically: given the same requests and the same sequence of           *)
(* responses they make the same attempts with the same waits and yield the *)
(* same outcomes; and an operation on one instance never changes the other *)
(* instance or a call in progress on it.                                   *)
(***************************************************************************)
C19_IdenticalInstances ==
  /\ [](\A i, j \in DOMAIN calls :
          (/\ calls[i].on # 0 /\ calls[j].on # 0 /\ calls[i].on # calls[j].on
           /\ SameConfig(calls[i].on, calls[j].on)
           /\ SameRequest(i, j) /\ SameResponses(i, j)) => SameCourse(i, j))
  /\ [][ /\ \A n, m \in DOMAIN clients :
              (n # m /\ clients'[n] # clients[n]) => clients'[m] = clients[m]
         /\ \A i \in DOMAIN calls : \A m \in DOMAIN clients :
              (calls'[i] # calls[i] /\ calls'[i].on # m) =>
                 /\ clients'[m] = clients[m]
                 /\ \A j \in DOMAIN calls :
                      (j # i /\ calls[j].on = m) => calls'[j] = calls[j] ]_vars

\* Two instances with the same configuration were given the same request
\* and four server errors each.
C19_Witness ==
  /\ calls[1].on = 1 /\ calls[2].on = 2
  /\ SameConfig(1, 2)
  /\ SameRequest(1, 2) /\ SameResponses(1, 2)
  /\ calls[1].k.pc = "threw" /\ Len(calls[1].k.hist) = 4

(***************************************************************************)
(* Vocabulary of the claims about bulkInviteGuests                         *)
(***************************************************************************)
\* The addGuest call for guest g has been made / has settled / is in flight.
InviteStarted(inv, g) == g \in DOMAIN inv /\ inv[g].pc # "idle"

InviteSettled(inv, g) == g \in DOMAIN inv /\ inv[g].pc \in {"returned", "threw"}

InFlight == {g \in DOMAIN invites :
               InviteStarted(invites, g) /\ ~InviteSettled(invites, g)}

\* The batch of the guest at position g of the list, batches counted from 1.
BatchOf(g) == ((g - 1) \div batchSize) + 1

(***************************************************************************)
(* C16.  bulkInviteGuests throttles in fixed batches: at every moment at   *)
(* most batchSize (10 in the program) addGuest calls are in flight, and no *)
(* addGuest call of batch i+1 is started until every addGuest call of      *)
(* batch i has settled, retries included, and the 2000 ms delay after that *)
(* has elapsed.                                                            *)
(***************************************************************************)
C16_BatchThrottle ==
  /\ [](Cardinality(InFlight) <= batchSize)
  /\ [][ \A g \in DOMAIN invites' :
           (InviteStarted(invites', g) /\ ~InviteStarted(invites, g)
              /\ BatchOf(g) > 1) =>
             /\ \A h \in DOMAIN invites :
                  BatchOf(h) < BatchOf(g) => InviteSettled(invites, h)
             /\ clock >= bulk.settledAt + 2000 ]_vars

\* The second batch is under way after a first batch in which one call used
\* all its retries.
C16_Witness ==
  /\ bulk.pc = "batch" /\ bulk.i = 2
  /\ Len(invites) > batchSize
  /\ InviteStarted(invites, batchSize + 1)
  /\ \E h \in DOMAIN invites :
       BatchOf(h) = 1 /\ invites[h].pc = "threw" /\ Len(invites[h].hist) = 4

(***************************************************************************)
(* C26.  addGuest translates errors only after makeRequest has given up:   *)
(* a final failure with status 400 becomes a ValidationError whose data is *)
(* the guestConfig argument, 403 a PermissionError, 409 a ConflictError,   *)
(* each with the same numeric status; every other failure (429 and 5xx     *)
(* after the retries, errors without a status) is rethrown unchanged; and  *)
(* the translation causes no further attempt.                              *)
(***************************************************************************)
C26_AddGuestTranslation ==
  (call.op = "addGuest" /\ call.pc = "threw") =>
    /\ call.thrown.status = 400 =>
         /\ call.error.name = "ValidationError"
         /\ call.error.status = 400
         /\ call.error.data = call.arg
    /\ call.thrown.status = 403 =>
         call.error.name = "PermissionError" /\ call.error.status = 403
    /\ call.thrown.status = 409 =>
         call.error.name = "ConflictError" /\ call.error.status = 409
    /\ call.thrown.status \notin {400, 403, 409} => call.error = call.thrown
    /\ call.thrown.status \in {400, 403, 409} =>
         Received(call.hist[Attempts], call.thrown.status)
    /\ Len(call.waits) = Attempts - 1

\* addGuest gave up on a 409 that followed a retried 429.
C26_Witness ==
  /\ call.op = "addGuest" /\ call.pc = "threw"
  /\ Attempts = 2
  /\ Received(call.hist[1], 429) /\ Received(call.hist[2], 409)
  /\ call.error.name = "ConflictError"

(***************************************************************************)
(* C27.  If decoding the response body as JSON fails on an attempt,        *)
(* makeRequest fails on that attempt with the decoding error, which has no *)
(* HTTP status, and does not retry, whatever the status of the response    *)
(* (2xx, 429 or 5xx alike): the body is decoded before the status is       *)
(* examined.                                                               *)
(***************************************************************************)
C27_DecodeFailureFinal ==
  \A a \in DOMAIN call.hist :
    (~call.hist[a].net /\ call.hist[a].json = "invalid") =>
      /\ a = Attempts
      /\ call.pc = "threw"
      /\ call.thrown.name = "SyntaxError"
      /\ call.thrown.status = NoStatus
      /\ Len(call.waits) = Attempts - 1

\* A 503 whose body is not JSON ended a call on its second attempt.
C27_Witness ==
  /\ call.pc = "threw" /\ Attempts = 2
  /\ Received(call.hist[2], 503) /\ call.hist[2].json = "invalid"
  /\ call.thrown.name = "SyntaxError"

(***************************************************************************)
(* C25.  bulkInviteGuests runs to completion and never rejects because of  *)
(* a guest failure: once every addGuest call has settled it returns a list *)
(* with exactly one result per input guest, in input order, a failed guest *)
(* being an {error, guest} entry; each guest is submitted exactly once, a  *)
(* failure does not keep the remaining guests and batches from being       *)
(* attempted, and ceil(n / batchSize) - 1 inter-batch delays are performed *)
(* for n >= 1 guests.                                                      *)
(***************************************************************************)
C25_BulkReturnsAll ==
  (/\ bulk.pc \notin {"idle", "delay"}
   /\ \A g \in DOMAIN invites : InviteSettled(invites, g)
   /\ Len(bulk.results) = Len(invites)) =>
    /\ bulk.pc = "done"
    /\ Len(bulk.results) = bulk.n
    /\ \A g \in 1..bulk.n :
         /\ bulk.results[g].failed <=> invites[g].pc = "threw"
         /\ bulk.results[g].failed =>
              /\ bulk.results[g].guest = ToString(g)
              /\ bulk.results[g].error = invites[g].error.message
         /\ ~bulk.results[g].failed => bulk.results[g].value = invites[g].result
    /\ \A g \in 1..bulk.n :
         Cardinality({a \in DOMAIN bulk.submitted : bulk.submitted[a] = g}) = 1
    /\ bulk.n >= 1 =>
         bulk.delays = ((bulk.n + batchSize - 1) \div batchSize) - 1

(***************************************************************************)
(* Vocabulary of the claims about executePOC                               *)
(***************************************************************************)
\* The requests of a complete run, in order.
PocOrder ==
  <<[op |-> "createSpace", method |-> "POST", path |-> "/spaces"],
    [op |-> "updateSpace", method |-> "PUT", path |-> "/spaces/{spaceId}"],
    [op |-> "addGuest", method |-> "POST", path |-> "/spaces/{spaceId}/guests"],
    [op |-> "sendInvitation", method |-> "POST", path |-> "/invitations"],
    [op |-> "getSpace", method |-> "GET", path |-> "/spaces/{spaceId}"],
    [op |-> "getGuestList", method |-> "GET", path |-> "/spaces/{spaceId}/guests"]>>

\* The request op of this run was issued / has settled with success.
PocIssuedOp(op) == \E a \in DOMAIN poc.issued : poc.issued[a].op = op

PocSucceeded(op) ==
  \E a \in DOMAIN poc.finished : poc.finished[a].op = op /\ poc.finished[a].ok

PocFailed(op) ==
  \E a \in DOMAIN poc.finished : poc.finished[a].op = op /\ ~poc.finished[a].ok

(***************************************************************************)
(* C21.  executePOC issues its requests in a fixed order and stops at the  *)
(* first step that throws: create space (POST /spaces), safety             *)
(* configuration (PUT /spaces/{id}), add moderator guest (POST             *)
(* /spaces/{id}/guests), custom invitation (POST /invitations),            *)
(* verification (GET space, GET guest list), then the report.  No guest is *)
(* added unless space creation succeeded, and no request is issued after a *)
(* step has thrown.                                                        *)
(***************************************************************************)
C21_FixedOrder ==
  /\ [](/\ Len(poc.issued) <= Len(PocOrder)
        /\ poc.issued = SubSeq(PocOrder, 1, Len(poc.issued))
        /\ Len(poc.finished) <= Len(poc.issued)
        /\ Len(poc.issued) <= Len(poc.finished) + 1
        /\ PocIssuedOp("addGuest") => PocSucceeded("createSpace")
        /\ poc.results.report.generated =>
             (Len(poc.finished) = Len(PocOrder) /\ PocSucceeded("getGuestList"))
        /\ (PocFailed("createSpace") \/ PocFailed("addGuest")
              \/ PocFailed("getSpace") \/ PocFailed("getGuestList"))
             => poc.stepThrew # "none")
  /\ [][poc.stepThrew # "none" => poc'.issued = poc.issued]_vars

\* The guest addition failed after the safety configuration: the run
\* stopped with three requests made.
C21_Witness ==
  /\ poc.pc = "settled"
  /\ poc.stepThrew = "guest addition"
  /\ Len(poc.issued) = 3
  /\ PocSucceeded("updateSpace") /\ PocFailed("addGuest")

\* Validation, initialisation, space creation, guest addition and
\* verification of this run all completed without throwing, told from the
\* environment and from the requests that settled.
PocStepsCompleted ==
  /\ env.GATHER_API_KEY \notin {Undefined, ""}
  /\ poc.env.FC_CONTACT_EMAIL = "contact@firstcontact.lgbt"
  /\ PocSucceeded("createSpace") /\ PocIssuedOp("updateSpace")
  /\ PocSucceeded("addGuest")
  /\ PocSucceeded("getSpace")
  /\ \E a \in DOMAIN poc.finished :
       /\ poc.finished[a].op = "getGuestList" /\ poc.finished[a].ok
       /\ poc.finished[a].result.value = "moderator"

(***************************************************************************)
(* C22.  On every path of executePOC cleanup runs exactly once before      *)
(* executePOC settles; results.success is true at that point if and only   *)
(* if validation, initialisation, space creation, guest addition and       *)
(* verification all completed without throwing; and when one of them       *)
(* throws, exactly one entry is appended to results.errors and the error   *)
(* is rethrown to the caller.                                              *)
(***************************************************************************)
C22_CleanupAndOutcome ==
  /\ poc.pc # "settled" => (poc.cleanups = 0 /\ poc.outcome = "pending")
  /\ poc.pc = "settled" =>
       /\ poc.cleanups = 1
       /\ poc.results.success <=> PocStepsCompleted
       /\ poc.results.success <=> poc.stepThrew = "none"
       /\ poc.results.success =>
            (poc.outcome = "returned" /\ poc.results.errors = <<>>)
       /\ ~poc.results.success =>
            /\ poc.outcome = "rejected"
            /\ Len(poc.results.errors) = 1
            /\ poc.results.errors[1].message = poc.rethrown
            /\ poc.rethrown.prefix # "" \/ poc.rethrown.cause.text # ""

\* A run that threw in verification has settled.
C22_Witness ==
  /\ poc.pc = "settled"
  /\ poc.stepThrew = "verification"
  /\ PocSucceeded("getSpace") /\ PocSucceeded("getGuestList")
  /\ Len(poc.results.errors) = 1

(***************************************************************************)
(* C23.  Whenever executePOC finishes with results.success = true, having  *)
(* reported 'Safety Features: Configured' and 'Invitation: Sent            *)
(* successfully' and a report with safetyFeaturesEnabled = true and        *)
(* customMessageSent = true, the safety configuration request              *)
(* (updateSpace) and the custom invitation request (sendInvitation) of     *)
(* that run both succeeded.                                                *)
(***************************************************************************)
C23_ReportedMeansDone ==
  (/\ poc.pc = "settled"
   /\ poc.results.success
   /\ poc.summary.safetyFeatures = "Configured"
   /\ poc.summary.invitation = "Sent successfully"
   /\ poc.results.report.safetyFeaturesEnabled
   /\ poc.results.report.customMessageSent) =>
    (PocSucceeded("updateSpace") /\ PocSucceeded("sendInvitation"))

(***************************************************************************)
(* C24.  addFCContactAsModerator treats the welcome email as non-critical: *)
(* the invitation request is issued only after addGuest has succeeded; the *)
(* operation succeeds, returning the result of addGuest, if and only if    *)
(* addGuest succeeds, whatever the outcome of the invitation request; a    *)
(* failing addGuest is rethrown and no invitation is sent.                 *)
(***************************************************************************)
C24_WelcomeNonCritical ==
  /\ PocIssuedOp("sendInvitation") => PocSucceeded("addGuest")
  /\ (PocSucceeded("sendInvitation") \/ PocFailed("sendInvitation")) =>
       poc.moderator.pc = "returned"
  /\ poc.moderator.pc = "returned" =>
       \E a \in DOMAIN poc.finished :
         /\ poc.finished[a].op = "addGuest" /\ poc.finished[a].ok
         /\ poc.moderator.result = poc.finished[a].result
         /\ poc.results.fcContact = poc.finished[a].result
  /\ PocFailed("addGuest") =>
       /\ poc.moderator.pc = "threw"
       /\ ~PocIssuedOp("sendInvitation")
       /\ \E a \in DOMAIN poc.finished :
            /\ poc.finished[a].op = "addGuest"
            /\ poc.moderator.error = poc.finished[a].error
  /\ poc.moderator.pc = "threw" => PocFailed("addGuest")

\* The invitation request failed and the moderator was added all the same.
C24_Witness ==
  /\ PocFailed("sendInvitation")
  /\ poc.moderator.pc = "returned"
  /\ poc.moderator.result.value # Undefined

====
